---------------------------- MODULE Spec2Model ----------------------------
(***************************************************************************)
(* lookuply/ai-evaluator: PageEvaluator (page_evaluator.py) and            *)
(* OllamaClient (ollama_client.py).                                        *)
(*                                                                         *)
(* Text is a sequence of symbols.  A symbol is one character, except that  *)
(* the two labels are single symbols: "SCORE:" / "score:" stand for the    *)
(* six characters of the score label in upper and lower case, "REASON:" /  *)
(* "reason:" for the reason label.  "\n" is the whitespace character (it   *)
(* is matched by \s, removed by str.strip, and is the character that "."   *)
(* matches only under re.DOTALL), "0" and "1" are the digits, "x" is any   *)
(* other character.                                                        *)
(*                                                                         *)
(* A float is an exact decimal [m, f] = m / 10^f kept in lowest form, so   *)
(* equal numbers are equal records.  IEEE rounding is not modelled: where  *)
(* the code's value is x / 10.0 the model's value is the exact tenth.      *)
(***************************************************************************)
EXTENDS Integers, Sequences, FiniteSets, TLC

VARIABLES
    response,   \* the text handed to _parse_response
    parsed,     \* what _parse_response returned for it, or NotParsed
    evaluator,  \* the PageEvaluator: [ollama, min_score]
    pc,         \* per evaluate invocation: "idle", "awaiting", "returned", "raised"
    content,    \* per invocation: the mapping it was called with
    locals,     \* per invocation: the coroutine's title, text and url
    request,    \* per invocation: the JSON payload of its POST, or NoRequest
    reply,      \* per invocation: how its POST ended, or NoOutcome
    posts,      \* per invocation: the POST requests issued for it
    result,     \* per invocation: the EvaluationResult returned, or NoResult
    error,      \* per invocation: the exception raised to its caller, or "none"
    probe,      \* how the last health_check's GET ended, or NoOutcome
    health      \* what the last health_check did: "none", "True", "False", "raised"

parseVars == <<response, parsed>>
taskVars == <<pc, content, locals, request, reply, posts, result, error>>
healthVars == <<probe, health>>
vars == <<response, parsed, evaluator, pc, content, locals, request, reply,
          posts, result, error, probe, health>>

---------------------------------------------------------------------------
(* Bounds *)

\* A backend reply is the concatenation of at most MaxParts parts of Vocab.
MaxParts == 4

\* The evaluate invocations that share one PageEvaluator and one client.
NumTasks == 2

---------------------------------------------------------------------------
(* Decimal numbers *)

Pow10(n) == 10 ^ n

\* The lowest form of m / 10^f.
RECURSIVE Canon(_)
Canon(d) ==
    IF d.m = 0 THEN [m |-> 0, f |-> 0]
    ELSE IF d.f > 0 /\ d.m % 10 = 0 THEN Canon([m |-> d.m \div 10, f |-> d.f - 1])
    ELSE d

Dec(m, f) == Canon([m |-> m, f |-> f])

Zero == Dec(0, 0)
One == Dec(1, 0)

\* a > 1, a < 0 for a decimal a
GtOne(a) == a.m > Pow10(a.f)
LtZero(a) == a.m < 0

\* a >= b for decimals a, b that are both at most 1 in size
Geq(a, b) ==
    LET f == IF a.f > b.f THEN a.f ELSE b.f
    IN  a.m * Pow10(f - a.f) >= b.m * Pow10(f - b.f)

\* score / 10.0
Div10(a) == Dec(a.m, a.f + 1)

---------------------------------------------------------------------------
(* Characters and regular-expression classes *)

Space == {"\n"}
Digits == {"0", "1"}

IsSpace(c) == c \in Space
IsDigit(c) == c \in Digits
IsNumChar(c) == IsDigit(c) \/ c = "."

\* re.IGNORECASE: the pattern's letters match either case.
LowerNoFold(c) == c
Lower(c) ==
    IF c = "SCORE:" THEN "score:"
    ELSE IF c = "REASON:" THEN "reason:"
    ELSE c

\* "." of a pattern compiled with re.DOTALL matches every character.
DotMatchesNoDotAll(c) == c # "\n"
DotMatches(c) == TRUE

DigitValue(c) == IF c = "1" THEN 1 ELSE 0

\* The positions of s that hold whitespace, a character of [\d.], a
\* character "." matches.
Spaces(s) == {k \in 1..Len(s) : IsSpace(s[k])}
NumChars(s) == {k \in 1..Len(s) : IsNumChar(s[k])}
Dots(s) == {k \in 1..Len(s) : DotMatches(s[k])}

\* The first position >= i of s that is not in the set In of positions
\* (Len(s) + 1 when there is none): where a greedy run starting at i stops.
RunStop(s, i, In) ==
    IF \E j \in i..Len(s) : j \notin In
    THEN CHOOSE j \in i..Len(s) : j \notin In /\ \A k \in i..(j - 1) : k \in In
    ELSE Len(s) + 1

NoMatch == [found |-> FALSE, group1 |-> <<>>]
Match(g) == [found |-> TRUE, group1 |-> g]

\* The leftmost position of Pos, there being one.
Leftmost(Pos) == CHOOSE i \in Pos : \A j \in Pos : i <= j

---------------------------------------------------------------------------
(* float(str) *)

\* The digits of a numeral as a natural number.
RECURSIVE DigitsValue(_)
DigitsValue(t) ==
    IF t = <<>> THEN 0
    ELSE 10 * DigitsValue(SubSeq(t, 1, Len(t) - 1)) + DigitValue(t[Len(t)])

\* float() accepts digits with at most one point and at least one digit
\* ("1", "1.", ".1", "0.1"), and raises ValueError for the rest (".", "1.1.").
FloatOk(t) ==
    /\ Cardinality({i \in 1..Len(t) : t[i] = "."}) <= 1
    /\ \E i \in 1..Len(t) : IsDigit(t[i])

FloatValue(t) ==
    LET dots == {i \in 1..Len(t) : t[i] = "."}
        p == IF dots = {} THEN Len(t) + 1 ELSE CHOOSE i \in dots : TRUE
        digs == SubSeq(t, 1, p - 1) \o SubSeq(t, p + 1, Len(t))
        f == IF dots = {} THEN 0 ELSE Len(t) - p
    IN  Dec(DigitsValue(digs), f)

---------------------------------------------------------------------------
(* PageEvaluator._parse_response *)

DefaultScore == Dec(5, 1)

\* re.search(r"score:\s*([\d.]+)", response, re.IGNORECASE) matches at i.
ScoreMatchAt(s, i) ==
    /\ Lower(s[i]) = "score:"
    /\ LET j == RunStop(s, i + 1, Spaces(s))
       IN  j <= Len(s) /\ IsNumChar(s[j])

ScoreSearch(s) ==
    LET Pos == {i \in 1..Len(s) : ScoreMatchAt(s, i)}
    IN  IF Pos = {} THEN NoMatch
        ELSE LET j == RunStop(s, Leftmost(Pos) + 1, Spaces(s))
             IN  Match(SubSeq(s, j, RunStop(s, j, NumChars(s)) - 1))

\* re.search(r"([\d.]+)/10", response) matches starting at p: the run of
\* [\d.] from p is followed by "/10" (a shorter run is followed by a
\* character of the class, so backtracking finds nothing more).
FractionMatchAt(s, p) ==
    /\ IsNumChar(s[p])
    /\ LET e == RunStop(s, p, NumChars(s))
       IN  e + 2 <= Len(s) /\ s[e] = "/" /\ s[e + 1] = "1" /\ s[e + 2] = "0"

FractionSearch(s) ==
    LET Pos == {p \in 1..Len(s) : FractionMatchAt(s, p)}
    IN  IF Pos = {} THEN NoMatch
        ELSE LET p == Leftmost(Pos)
             IN  Match(SubSeq(s, p, RunStop(s, p, NumChars(s)) - 1))

\* re.search(r"reason:\s*(.+)", response, re.IGNORECASE | re.DOTALL) matches
\* at i: \s* then at least one character matched by ".".  When only
\* whitespace follows the label, \s* gives back its last character to ".+".
ReasonGroupStart(s, i) ==
    LET j == RunStop(s, i + 1, Spaces(s))
    IN  IF j <= Len(s) /\ DotMatches(s[j]) THEN j
        ELSE IF \E k \in (i + 1)..(j - 1) : DotMatches(s[k])
             THEN CHOOSE k \in (i + 1)..(j - 1) :
                      DotMatches(s[k]) /\ \A l \in (k + 1)..(j - 1) : ~DotMatches(s[l])
             ELSE 0

ReasonMatchAt(s, i) == Lower(s[i]) = "reason:" /\ ReasonGroupStart(s, i) # 0

ReasonSearch(s) ==
    LET Pos == {i \in 1..Len(s) : ReasonMatchAt(s, i)}
    IN  IF Pos = {} THEN NoMatch
        ELSE LET g == ReasonGroupStart(s, Leftmost(Pos))
             IN  Match(SubSeq(s, g, RunStop(s, g, Dots(s)) - 1))

\* str.strip(): leading and trailing whitespace removed.
StripNone(s) == s
Strip(s) ==
    LET In == {i \in 1..Len(s) : ~IsSpace(s[i])}
    IN  IF In = {} THEN <<>>
        ELSE SubSeq(s, CHOOSE i \in In : \A j \in In : i <= j,
                       CHOOSE i \in In : \A j \in In : i >= j)

\* lines 98-105: the score after the labeled-score rule.
NormalizeNever(x) == x
Normalize(x) == IF GtOne(x) THEN Div10(x) ELSE x

LabeledScore(score, score_match) ==
    IF score_match.found /\ FloatOk(score_match.group1)
    THEN Normalize(FloatValue(score_match.group1))
    ELSE score

\* line 109: the fraction rule fires only when the labeled search found nothing.
FractionAppliesAlways(fraction_match, score_match) == fraction_match.found
FractionApplies(fraction_match, score_match) ==
    fraction_match.found /\ ~score_match.found

\* lines 109-113
FractionScore(score, fraction_match, score_match) ==
    IF FractionApplies(fraction_match, score_match) /\ FloatOk(fraction_match.group1)
    THEN Div10(FloatValue(fraction_match.group1))
    ELSE score

\* lines 116-121
ReasonOf(resp, reason_match) ==
    IF reason_match.found THEN Strip(reason_match.group1) ELSE Strip(resp)

\* line 124: max(0.0, min(1.0, score))
ClampNone(score) == score
Clamp(score) ==
    IF GtOne(score) THEN One ELSE IF LtZero(score) THEN Zero ELSE score

ParseResponse(resp) ==
    LET score_match == ScoreSearch(resp)
        score1 == LabeledScore(DefaultScore, score_match)
        fraction_match == FractionSearch(resp)
        score2 == FractionScore(score1, fraction_match, score_match)
        reason == ReasonOf(resp, ReasonSearch(resp))
    IN  [score |-> Clamp(score2), reason |-> reason]

---------------------------------------------------------------------------
(* Backend replies *)

Vocab ==
    { <<"SCORE:">>, <<"score:">>, <<"REASON:">>, <<"reason:">>, <<"\n">>,
      <<"0">>, <<"1">>, <<".">>, <<"/">>, <<"/", "1", "0">>, <<"x">> }

RECURSIVE Flatten(_)
Flatten(ps) == IF ps = <<>> THEN <<>> ELSE Head(ps) \o Flatten(Tail(ps))

PartSeqs == UNION {[1..n -> Vocab] : n \in 0..MaxParts}

NotParsed == [score |-> Dec(-1, 0), reason |-> <<"?">>]

---------------------------------------------------------------------------
(* PageEvaluator.evaluate and OllamaClient *)

Tasks == 1..NumTasks

NoneMap == <<>>
T == <<"T">>
X == <<"X", "X", "X">>

\* The mappings evaluate is called with: keys absent, empty and set, and a
\* key the evaluator ignores.
Contents ==
    { NoneMap,
      ("title" :> <<>> @@ "text" :> <<>> @@ "url" :> <<"u1">>),
      ("text" :> X @@ "url" :> <<"u3">>),
      ("title" :> T @@ "text" :> X @@ "url" :> <<"u4">> @@ "author" :> <<"A">>) }

\* dict.get(key, default)
Get(c, k, d) == IF k \in DOMAIN c THEN c[k] ELSE d

\* not v, for a string v
Falsy(v) == v = <<>>

\* text[:n]
Take(s, n) == SubSeq(s, 1, IF Len(s) < n THEN Len(s) ELSE n)

MaxPromptText == 2000
DefaultMinScore == Dec(6, 1)
MinScores == {Zero, DefaultMinScore, One}

EmptyReason == <<"Empty or no content">>
SystemPrompt == <<"You are an expert content evaluator for a search engine.">>

NoRequest == [model |-> "", prompt |-> <<>>, stream |-> FALSE, system |-> <<>>]
NoResult == [url |-> <<"?">>, score |-> Dec(-1, 0), is_useful |-> FALSE, reason |-> <<"?">>]

\* How an HTTP request ends: an exception of the transport, or a reply with
\* a status and, for a POST, a JSON body that holds a response field or not.
Outcome(kind, exc, status_ok, has_response, text) ==
    [kind |-> kind, exc |-> exc, status_ok |-> status_ok,
     has_response |-> has_response, text |-> text]
NoOutcome == Outcome("none", "none", FALSE, FALSE, <<>>)

TransportErrors == {"TimeoutException", "ConnectError", "ReadError"}
\* httpx.HTTPError is the base class of the transport errors and of the
\* HTTPStatusError that raise_for_status raises.
HTTPErrors == TransportErrors \cup {"HTTPStatusError"}

SampleReplies ==
    { <<"SCORE:", "1", "\n", "REASON:", "x">>,
      <<"score:", "0", ".", "1", "\n", "reason:", "x", "x">>,
      <<"1", "/", "1", "0", "x">>,
      <<"x">> }

PostOutcomes ==
    {Outcome("reply", "none", TRUE, TRUE, r) : r \in SampleReplies}
    \cup {Outcome("reply", "none", TRUE, FALSE, <<>>),
          Outcome("reply", "none", FALSE, FALSE, <<>>)}
    \cup {Outcome("raise", e, FALSE, FALSE, <<>>) : e \in {"TimeoutException", "ConnectError"}}

GetOutcomes ==
    {Outcome("reply", "none", ok, FALSE, <<>>) : ok \in BOOLEAN}
    \cup {Outcome("raise", e, FALSE, FALSE, <<>>) : e \in TransportErrors}

\* What a call does: returns a value or raises an exception.
Return(v) == [raised |-> FALSE, exc |-> "none", value |-> v]
Raise(e) == [raised |-> TRUE, exc |-> e, value |-> <<>>]

\* An exception of the awaited call that no handler catches leaves the
\* caller as it is.
PropagateSwallowed(e) == Return(<<>>)
Propagate(e) == Raise(e)

\* ollama_client.py 37-45: the payload of generate
Payload(prompt, system) ==
    [model |-> "model", prompt |-> prompt, stream |-> FALSE,
     system |-> IF Falsy(system) THEN <<>> ELSE system]

\* ollama_client.py 46-50: generate from the end of its POST on
Generate(o) ==
    IF o.kind = "raise" THEN Propagate(o.exc)
    ELSE IF ~o.status_ok THEN Propagate("HTTPStatusError")
    ELSE Return(IF o.has_response THEN o.text ELSE <<>>)

\* ollama_client.py 63: except (ConnectError, TimeoutException, HTTPError)
CaughtNamedOnly(e) == e \in {"ConnectError", "TimeoutException"}
Caught(e) == e \in {"ConnectError", "TimeoutException"} \cup HTTPErrors

\* ollama_client.py 52-64
HealthCheckResult(o) ==
    LET got == IF o.kind = "raise" THEN Raise(o.exc)
               ELSE IF ~o.status_ok THEN Raise("HTTPStatusError")
               ELSE Return(<<>>)
    IN  IF ~got.raised THEN "True"
        ELSE IF Caught(got.exc) THEN "False"
        ELSE "raised"

\* page_evaluator.py 47
IsEmptyContent(title, text) == Falsy(title) /\ Falsy(text)

\* page_evaluator.py 48-50
EmptyIsUsefulByThreshold == Geq(Zero, evaluator.min_score)
EmptyIsUseful == FALSE

EmptyResult(url) ==
    [url |-> url, score |-> Zero, is_useful |-> EmptyIsUseful, reason |-> EmptyReason]

\* page_evaluator.py 66-70
UserPrompt(title, text) == <<"Title:">> \o title \o <<"Content:">> \o Take(text, MaxPromptText)

\* page_evaluator.py 79
IsUsefulStrict(score, min_score) == ~Geq(min_score, score)
IsUseful(score, min_score) == Geq(score, min_score)

\* The locals of invocation t's own coroutine frame.
LocalsOfLastCaller(t) ==
    locals[CHOOSE u \in Tasks : pc[u] # "idle" /\ \A v \in Tasks : pc[v] # "idle" => v <= u]
LocalsOf(t) == locals[t]

NoLocals == [title |-> <<>>, text |-> <<>>, url |-> <<>>]

Init ==
    /\ response = <<>>
    /\ parsed = NotParsed
    /\ \E m \in MinScores : evaluator = [ollama |-> "client", min_score |-> m]
    /\ pc = [t \in Tasks |-> "idle"]
    /\ content = [t \in Tasks |-> NoneMap]
    /\ locals = [t \in Tasks |-> NoLocals]
    /\ request = [t \in Tasks |-> NoRequest]
    /\ reply = [t \in Tasks |-> NoOutcome]
    /\ posts = [t \in Tasks |-> 0]
    /\ result = [t \in Tasks |-> NoResult]
    /\ error = [t \in Tasks |-> "none"]
    /\ probe = NoOutcome
    /\ health = "none"

\* page_evaluator.py 42-73 and ollama_client.py 35-46: evaluate, called with
\* c, up to its return for empty content or else to the await of the POST.
Evaluate(t, c) ==
    /\ pc[t] = "idle"
    /\ LET title == Get(c, "title", <<>>)
           text == Get(c, "text", <<>>)
           url == Get(c, "url", <<>>)
       IN  /\ content' = [content EXCEPT ![t] = c]
           /\ locals' = [locals EXCEPT ![t] = [title |-> title, text |-> text, url |-> url]]
           /\ IF IsEmptyContent(title, text)
              THEN /\ pc' = [pc EXCEPT ![t] = "returned"]
                   /\ result' = [result EXCEPT ![t] = EmptyResult(url)]
                   /\ UNCHANGED <<request, posts>>
              ELSE /\ pc' = [pc EXCEPT ![t] = "awaiting"]
                   /\ request' = [request EXCEPT
                                     ![t] = Payload(UserPrompt(title, text), SystemPrompt)]
                   /\ posts' = [posts EXCEPT ![t] = @ + 1]
                   /\ UNCHANGED result
    /\ UNCHANGED <<reply, error, evaluator, parseVars, healthVars>>

\* ollama_client.py 46-50 and page_evaluator.py 73-81: the POST of
\* invocation t ends with o; generate and then evaluate run to their end.
PostCompletes(t, o) ==
    /\ pc[t] = "awaiting"
    /\ reply' = [reply EXCEPT ![t] = o]
    /\ LET got == Generate(o)
       IN  IF got.raised
           THEN /\ pc' = [pc EXCEPT ![t] = "raised"]
                /\ error' = [error EXCEPT ![t] = got.exc]
                /\ UNCHANGED result
           ELSE LET p == ParseResponse(got.value)
                    is_useful == IsUseful(p.score, evaluator.min_score)
                IN  /\ pc' = [pc EXCEPT ![t] = "returned"]
                    /\ result' = [result EXCEPT
                                     ![t] = [url |-> LocalsOf(t).url, score |-> p.score,
                                             is_useful |-> is_useful, reason |-> p.reason]]
                    /\ UNCHANGED error
    /\ UNCHANGED <<content, locals, request, posts, evaluator, parseVars, healthVars>>

\* ollama_client.py 52-64: health_check, its GET ending with o.
HealthCheck(o) ==
    /\ probe' = o
    /\ health' = HealthCheckResult(o)
    /\ UNCHANGED <<evaluator, taskVars, parseVars>>

Next ==
    \/ \E t \in Tasks, c \in Contents : Evaluate(t, c)
    \/ \E t \in Tasks, o \in PostOutcomes : PostCompletes(t, o)
    \/ \E o \in GetOutcomes : HealthCheck(o)

Spec == Init /\ [][Next]_vars

---------------------------------------------------------------------------
(* The parser applied to every reply *)

ParseInit ==
    /\ \E ps \in PartSeqs : response = Flatten(ps)
    /\ parsed = NotParsed
    /\ evaluator = [ollama |-> "client", min_score |-> DefaultMinScore]
    /\ pc = [t \in Tasks |-> "idle"]
    /\ content = [t \in Tasks |-> NoneMap]
    /\ locals = [t \in Tasks |-> NoLocals]
    /\ request = [t \in Tasks |-> NoRequest]
    /\ reply = [t \in Tasks |-> NoOutcome]
    /\ posts = [t \in Tasks |-> 0]
    /\ result = [t \in Tasks |-> NoResult]
    /\ error = [t \in Tasks |-> "none"]
    /\ probe = NoOutcome
    /\ health = "none"

\* page_evaluator.py 83-126: _parse_response(response)
Parse ==
    /\ parsed = NotParsed
    /\ parsed' = ParseResponse(response)
    /\ UNCHANGED <<response, evaluator, taskVars, healthVars>>

ParseNext == Parse

ParseSpec == ParseInit /\ [][ParseNext]_vars

---------------------------------------------------------------------------
(* Properties of the parser *)

Parsed == parsed # NotParsed

ScoreLabelAt(s, i) == s[i] \in {"SCORE:", "score:"}
ReasonLabelAt(s, i) == s[i] \in {"REASON:", "reason:"}

\* t is s without its leading and trailing whitespace.
IsTrimOf(t, s) ==
    /\ \E a, b \in 0..Len(s) :
          /\ a + b <= Len(s)
          /\ t = SubSeq(s, a + 1, Len(s) - b)
          /\ \A k \in 1..a : s[k] = "\n"
          /\ \A k \in (Len(s) - b + 1)..Len(s) : s[k] = "\n"
    /\ t # <<>> => t[1] # "\n" /\ t[Len(t)] # "\n"

\* The run of digits and points that follows the label at i and any
\* whitespace after it (empty when no digit or point stands there).
NumeralAfter(s, i) ==
    LET j == RunStop(s, i + 1, Spaces(s))
    IN  SubSeq(s, j, RunStop(s, j, NumChars(s)) - 1)

\* A numeral without the points that end it ("0.1." reads 0.1).
RECURSIVE DropFinalDots(_)
DropFinalDots(t) ==
    IF t # <<>> /\ t[Len(t)] = "." THEN DropFinalDots(SubSeq(t, 1, Len(t) - 1))
    ELSE t

\* What a labeled score x is to become: x itself up to 1, x / 10 above,
\* and 1.0 when x / 10 is still above 1.
ScoreFor(x) ==
    IF ~GtOne(x) THEN x
    ELSE IF GtOne(Div10(x)) THEN One ELSE Div10(x)

\* C3: the score _parse_response returns lies in [0.0, 1.0], whichever rule
\* supplied it.
C3_ScoreInUnitInterval ==
    Parsed => ~LtZero(parsed.score) /\ ~GtOne(parsed.score)

\* A labeled 11 becomes 1.1 and is clamped to 1.0.
C3_Witness ==
    Parsed /\ response = <<"SCORE:", "1", "1">> /\ parsed.score = One

\* C6 as stated: wherever the reply holds a score label followed by a
\* number x, the parsed score is x (0 <= x <= 1) or x / 10 clamped (x > 1).
C6_EveryLabeledScore ==
    Parsed =>
        \A i \in 1..Len(response) :
            LET n == DropFinalDots(NumeralAfter(response, i))
            IN  ScoreLabelAt(response, i) /\ FloatOk(n)
                    => parsed.score = ScoreFor(FloatValue(n))

\* C6 amended: the leftmost score label that is followed by a digit or a
\* point decides, and only when the whole run of digits and points there
\* is a numeral x: then the parsed score is x (0 <= x <= 1) or x / 10
\* clamped to 1.0 (x > 1).
C6_FirstWellFormedLabeledScore ==
    Parsed =>
        \A i \in 1..Len(response) :
            LET n == NumeralAfter(response, i)
            IN  /\ ScoreLabelAt(response, i)
                /\ n # <<>>
                /\ \A k \in 1..(i - 1) :
                      ScoreLabelAt(response, k) => NumeralAfter(response, k) = <<>>
                /\ FloatOk(n)
                => parsed.score = ScoreFor(FloatValue(n))

\* "score:\n.1": the label in lower case, whitespace, and x = 0.1.
C6_Witness ==
    Parsed /\ response = <<"score:", "\n", ".", "1">>
           /\ parsed.score = Dec(1, 1)

\* C7: when the labeled-score search finds something, the score is the one
\* the labeled rule gives (the number found, normalised; the default when
\* the run found is no number) whether or not an N/10 is present too: the
\* fraction decides only when the labeled search found nothing.
C7_LabeledScoreWins ==
    Parsed =>
        LET sm == ScoreSearch(response)
        IN  sm.found =>
                parsed.score = IF FloatOk(sm.group1)
                               THEN ScoreFor(FloatValue(sm.group1))
                               ELSE DefaultScore

\* "SCORE:1/10": the label gives 1.0, the fraction would give 0.1.
C7_Witness ==
    /\ Parsed
    /\ response = <<"SCORE:", "1", "/", "1", "0">>
    /\ ScoreSearch(response).found /\ FractionSearch(response).found
    /\ parsed.score = One

\* The text the reason is taken from: what follows the first reason label
\* when anything follows it, the whole reply otherwise.
ReasonSource(s) ==
    LET L == {i \in 1..Len(s) : ReasonLabelAt(s, i)}
    IN  IF L # {} /\ Leftmost(L) < Len(s)
        THEN SubSeq(s, Leftmost(L) + 1, Len(s))
        ELSE s

\* C8 as stated: every non-empty reply gets a non-empty reason.
C8_ReasonNeverEmpty ==
    Parsed /\ response # <<>> => parsed.reason # <<>>

\* C8 amended: the reason is the trimmed text after the first reason label
\* when a character follows that label, the trimmed reply otherwise, and it
\* is non-empty exactly when that text holds a character that is not
\* whitespace.
C8_ReasonIsTrimmedSource ==
    Parsed =>
        LET src == ReasonSource(response)
        IN  /\ IsTrimOf(parsed.reason, src)
            /\ parsed.reason # <<>> <=> \E k \in 1..Len(src) : src[k] # "\n"

\* A reason of two lines after the label.
C8_Witness ==
    /\ Parsed
    /\ response = <<"REASON:", "x", "\n", "x">>
    /\ parsed.reason = <<"x", "\n", "x">>

\* No pattern: no score label with a number, no number before "/10", no
\* reason label.
NoPattern(s) ==
    /\ \A i \in 1..Len(s) : ScoreLabelAt(s, i) => ~FloatOk(NumeralAfter(s, i))
    /\ ~(FractionSearch(s).found /\ FloatOk(FractionSearch(s).group1))
    /\ \A i \in 1..Len(s) : ~ReasonLabelAt(s, i)

\* C9 as stated: a reply with no pattern gets 0.5 and the full reply as
\* its reason.
C9_DefaultAndFullReply ==
    Parsed /\ NoPattern(response)
        => parsed.score = DefaultScore /\ parsed.reason = response

\* C9 amended: a reply with no pattern gets 0.5 and the reply without its
\* leading and trailing whitespace as its reason.
C9_DefaultAndTrimmedReply ==
    Parsed /\ NoPattern(response)
        => parsed.score = DefaultScore /\ IsTrimOf(parsed.reason, response)

\* "x\n": the newline that ends the reply is not part of the reason.
C9_Witness ==
    /\ Parsed
    /\ response = <<"x", "x", "\n">>
    /\ NoPattern(response)
    /\ parsed = [score |-> DefaultScore, reason |-> <<"x", "x">>]

---------------------------------------------------------------------------
(* Properties of evaluate, generate and health_check *)

\* The title and the text of c are both empty or absent.
EmptyOrAbsent(c) ==
    /\ "title" \in DOMAIN c => c["title"] = <<>>
    /\ "text" \in DOMAIN c => c["text"] = <<>>

UrlOf(c) == IF "url" \in DOMAIN c THEN c["url"] ELSE <<>>

\* C1: an invocation with empty or absent title and text returns score 0.0,
\* is_useful false, the reason "Empty or no content" and the url it was
\* given, and no POST is issued for it.
C1_EmptyContentShortCircuit ==
    \A t \in Tasks :
        pc[t] # "idle" /\ EmptyOrAbsent(content[t]) =>
            /\ pc[t] = "returned"
            /\ result[t] = [url |-> UrlOf(content[t]), score |-> Zero,
                            is_useful |-> FALSE, reason |-> EmptyReason]
            /\ posts[t] = 0
            /\ request[t] = NoRequest

\* Empty title and text with a url, under a threshold of 0.0.
C1_Witness ==
    \E t \in Tasks :
        /\ pc[t] = "returned"
        /\ content[t] = ("title" :> <<>> @@ "text" :> <<>> @@ "url" :> <<"u1">>)
        /\ result[t].url = <<"u1">>
        /\ evaluator.min_score = Zero

\* C2 as stated: every result has is_useful = (score >= min_score).
C2_UsefulIffAtLeastThreshold ==
    \A t \in Tasks :
        pc[t] = "returned" =>
            (result[t].is_useful <=> Geq(result[t].score, evaluator.min_score))

\* C2 amended: a result parsed from a backend reply has
\* is_useful = (score >= min_score) for every threshold; the result for
\* empty content has is_useful false, which is score >= min_score exactly
\* when min_score > 0.0.
C2_UsefulIffAtLeastThresholdWhenParsed ==
    \A t \in Tasks :
        pc[t] = "returned" =>
            IF EmptyOrAbsent(content[t])
            THEN /\ ~result[t].is_useful
                 /\ (result[t].is_useful <=> Geq(result[t].score, evaluator.min_score))
                        <=> evaluator.min_score # Zero
            ELSE result[t].is_useful <=> Geq(result[t].score, evaluator.min_score)

\* A parsed score of 1.0 under a threshold of 1.0 is useful.
C2_Witness ==
    \E t \in Tasks :
        /\ pc[t] = "returned"
        /\ ~EmptyOrAbsent(content[t])
        /\ evaluator.min_score = One
        /\ result[t].score = One
        /\ result[t].is_useful

\* C4: a POST that ends in a timeout or a connection failure was the only
\* request of its invocation, and the invocation raises that same failure
\* and returns no result.
C4_TransportFailurePropagates ==
    \A t \in Tasks :
        reply[t].kind = "raise" =>
            /\ pc[t] = "raised"
            /\ error[t] = reply[t].exc
            /\ result[t] = NoResult
            /\ posts[t] = 1

C4_Witness ==
    \E t, u \in Tasks :
        /\ reply[t].exc = "TimeoutException" /\ error[t] = "TimeoutException"
        /\ reply[u].exc = "ConnectError" /\ error[u] = "ConnectError"

\* C5: health_check never raises; it returns true only for a GET that ended
\* with a success status and false for a timeout, a connection failure or
\* another status.
C5_HealthCheckNeverRaises ==
    /\ health \in {"none", "True", "False"}
    /\ health = "True" => probe.kind = "reply" /\ probe.status_ok
    /\ probe.kind = "raise" \/ (probe.kind = "reply" /\ ~probe.status_ok)
           => health = "False"

\* A GET answered with an error status.
C5_Witness ==
    probe.kind = "reply" /\ ~probe.status_ok /\ health = "False"

\* The result the content c and the outcome o of its own POST determine.
OwnResult(c, o) ==
    IF EmptyOrAbsent(c)
    THEN [url |-> UrlOf(c), score |-> Zero, is_useful |-> FALSE, reason |-> EmptyReason]
    ELSE LET p == ParseResponse(IF o.has_response THEN o.text ELSE <<>>)
         IN  [url |-> UrlOf(c), score |-> p.score,
              is_useful |-> Geq(p.score, evaluator.min_score), reason |-> p.reason]

ResultsAreOwn ==
    \A t \in Tasks : pc[t] = "returned" => result[t] = OwnResult(content[t], reply[t])

\* C10: under every interleaving, the result of each invocation is the one
\* its own content and the reply to its own request determine, and no step
\* changes the evaluator's min_score or client.
C10_InvocationsIndependent ==
    [](ResultsAreOwn) /\ [][evaluator' = evaluator]_vars

\* Two invocations in flight together, answered in the opposite order.
C10_Witness ==
    /\ NumTasks >= 2
    /\ pc[1] = "returned" /\ pc[2] = "awaiting"
    /\ result[1].url = <<"u3">> /\ locals[2].url = <<"u4">>
    /\ result[1].score = One

=============================================================================
